---- MODULE Spec2Model ----
(***************************************************************************)
(* Model of the task-queue manager of src/main.go.                         *)
(*                                                                         *)
(* One invocation of the program is two steps: the package init() that     *)
(* runs loadTasks (action Load), then the Run function of the one cobra    *)
(* command named on the command line (actions addCmd .. queueInfoCmd).     *)
(* Every command runs to completion, saveTasks included, in one step.      *)
(* The fields Description and Requester of Task are only ever copied and   *)
(* printed; they are left out of the task records, except under ConcSpec,  *)
(* where the file is the text json.MarshalIndent wrote, byte for byte.     *)
(***************************************************************************)
EXTENDS Integers, Sequences, FiniteSets, TLC

VARIABLES
    file,       \* ~/.tasks.json: [exists, data], data the TaskList it holds
    saves,      \* how many times the file has been written so far
    taskList,   \* the global taskList of the running (or last) process
    pc,         \* "exit": no process runs; "loaded": init() done, command next
    argv,       \* the command line of the running (or last) process
    exitCode,   \* exit status of the last command
    stderr,     \* the message the last command printed on standard error
    stdout      \* what the last command reported on standard output (rows)

vars == <<file, saves, taskList, pc, argv, exitCode, stderr, stdout>>

(***************************** bounds **************************************)
MaxSaves == 4       \* the file is written at most this many times
MaxMinutes == 3000  \* FormatSpec formats every minute count in 0..MaxMinutes
MaxConcSaves == 3   \* ConcSpec: the two processes start this many writes
MaxQueued == 3      \* RemoveSpec: the file holds this many tasks at the start

(************************ program constants ********************************)
DefaultPriority == 3
DefaultDuration == 30
MinPriority == 1
MaxPriority == 5
MinutesPerHour == 60
MinutesPerDay == 1440

(***************************************************************************)
(* time.Time. A value is an instant and the zone it is shown in: day is    *)
(* the number of days since 0001-01-01 (UTC), sec the second of that day,  *)
(* nsec the nanosecond of that second, offset the minutes the zone is east *)
(* of UTC. DaysFromCivil and CivilFromDays are the proleptic Gregorian     *)
(* calendar the time package uses.                                         *)
(***************************************************************************)
SecondsPerDay == 86400

DaysFromCivil(year, month, day) ==
    LET y == IF month <= 2 THEN year - 1 ELSE year
        era == y \div 400
        yoe == y - era * 400
        mp == IF month > 2 THEN month - 3 ELSE month + 9
        doy == (153 * mp + 2) \div 5 + day - 1
        doe == yoe * 365 + yoe \div 4 - yoe \div 100 + doy
    IN  era * 146097 + doe - 306

CivilFromDays(days) ==
    LET z == days + 306
        era == z \div 146097
        doe == z - era * 146097
        yoe == (doe - doe \div 1460 + doe \div 36524 - doe \div 146096) \div 365
        doy == doe - (365 * yoe + yoe \div 4 - yoe \div 100)
        mp == (5 * doy + 2) \div 153
        month == IF mp < 10 THEN mp + 3 ELSE mp - 9
    IN  [year |-> yoe + era * 400 + (IF month <= 2 THEN 1 ELSE 0),
         month |-> month,
         day |-> doy - (153 * mp + 2) \div 5 + 1]

(* The instant that the zone `offset` shows as the given date and time. *)
Date(year, month, day, hour, minute, second, nsec, offset) ==
    LET local == hour * 3600 + minute * 60 + second - offset * 60
    IN  [day |-> DaysFromCivil(year, month, day) + local \div SecondsPerDay,
         sec |-> local % SecondsPerDay,
         nsec |-> nsec,
         offset |-> offset]

(* The zero time.Time (CompletedAt of a task never completed). *)
ZeroTime == [day |-> 0, sec |-> 0, nsec |-> 0, offset |-> 0]

(* Time.Before: the instants are compared, the zones are not. *)
Before(t, u) ==
    \/ t.day < u.day
    \/ t.day = u.day /\ t.sec < u.sec
    \/ t.day = u.day /\ t.sec = u.sec /\ t.nsec < u.nsec

(* Wall-clock instants time.Now() may return. The wall clock may stand     *)
(* still or be set back between two invocations, so any instant may follow *)
(* any other.                                                              *)
Times == {Date(2024, 1, 1, 0, 0, 1, 500000000, 0), Date(2024, 1, 1, 0, 0, 2, 0, 0)}

(* Command-line words the model feeds the commands. *)
PriorityArgs == {"abc", "0", "+1", "6"}
DurationArgs == {"abc", "0", "045"}
IdArgs == {"abc", "1", "2", "3", "11"}
StatusArgs == {"", "pending", "completed"}

(* strconv.Atoi: an optional sign, then one or more decimal digits, the    *)
(* value within the 64-bit int. Leading zeros are accepted; the empty     *)
(* word, a bare sign and any other character are syntax errors, a value   *)
(* outside the int a range error. The callers look at err only.           *)
DecimalDigits == <<"0", "1", "2", "3", "4", "5", "6", "7", "8", "9">>

IsDigit(c) == \E d \in 1..Len(DecimalDigits) : DecimalDigits[d] = c

DigitValue(c) == (CHOOSE d \in 1..Len(DecimalDigits) : DecimalDigits[d] = c) - 1

AllDigits(s) == \A i \in 1..Len(s) : IsDigit(SubSeq(s, i, i))

RECURSIVE StripZeros(_)
StripZeros(s) ==
    IF Len(s) > 1 /\ SubSeq(s, 1, 1) = "0"
    THEN StripZeros(SubSeq(s, 2, Len(s)))
    ELSE s

(* a <= b for two digit words of one length. *)
RECURSIVE DigitsAtMost(_, _)
DigitsAtMost(a, b) ==
    IF Len(a) = 0 THEN TRUE
    ELSE LET x == DigitValue(SubSeq(a, 1, 1))
             y == DigitValue(SubSeq(b, 1, 1))
         IN  IF x # y THEN x < y
             ELSE DigitsAtMost(SubSeq(a, 2, Len(a)), SubSeq(b, 2, Len(b)))

MaxIntDigits == "9223372036854775807"    \* 2^63 - 1
MinIntDigits == "9223372036854775808"    \* -(-2^63)

InIntRange(negative, digits) ==
    LET d == StripZeros(digits)
        limit == IF negative THEN MinIntDigits ELSE MaxIntDigits
    IN  \/ Len(d) < Len(limit)
        \/ Len(d) = Len(limit) /\ DigitsAtMost(d, limit)

RECURSIVE DecimalValue(_)
DecimalValue(s) ==
    IF Len(s) = 0 THEN 0
    ELSE 10 * DecimalValue(SubSeq(s, 1, Len(s) - 1))
            + DigitValue(SubSeq(s, Len(s), Len(s)))

Atoi(s) ==
    LET signed == Len(s) > 0 /\ SubSeq(s, 1, 1) \in {"+", "-"}
        negative == signed /\ SubSeq(s, 1, 1) = "-"
        digits == IF signed THEN SubSeq(s, 2, Len(s)) ELSE s
    IN  IF Len(digits) = 0 \/ ~AllDigits(digits) \/ ~InIntRange(negative, digits)
        THEN [err |-> TRUE, val |-> 0]
        ELSE [err |-> FALSE,
              val |-> IF negative THEN 0 - DecimalValue(digits)
                      ELSE DecimalValue(digits)]

(* Mutant: the fresh list keeps the zero value of NextID. *)
EmptyTaskList_NextIdZero == [Tasks |-> <<>>, NextID |-> 0]

EmptyTaskList == [Tasks |-> <<>>, NextID |-> 1]
ZeroTaskList == [Tasks |-> <<>>, NextID |-> 0]

(************************ updateQueuePositions *****************************)
(* Mutant: every task is selected, whatever its status. *)
pendingOf_AnyStatus(tasks) == tasks

RECURSIVE pendingOf(_)
pendingOf(tasks) ==
    IF tasks = <<>> THEN <<>>
    ELSE IF Head(tasks).Status = "pending"
         THEN <<Head(tasks)>> \o pendingOf(Tail(tasks))
         ELSE pendingOf(Tail(tasks))

(* Mutant: within a priority the task created later comes first. *)
Less_NewestFirst(a, b) ==
    IF a.Priority # b.Priority
    THEN a.Priority < b.Priority
    ELSE Before(b.CreatedAt, a.CreatedAt)

(* Mutant: the comparison forgets the priority. *)
Less_IgnoresPriority(a, b) == Before(a.CreatedAt, b.CreatedAt)

Less(a, b) ==
    IF a.Priority # b.Priority
    THEN a.Priority < b.Priority
    ELSE Before(a.CreatedAt, b.CreatedAt)

(* sort.Slice is not stable: every arrangement of s that is sorted under   *)
(* Less is a possible result. Arrangements(s, I) are the sorted            *)
(* arrangements of the elements of s at the indices I: any element that    *)
(* none of the others is Less than may come first.                         *)
RECURSIVE Arrangements(_, _)
Arrangements(s, I) ==
    IF I = {} THEN {<<>>}
    ELSE UNION {{<<s[i]>> \o rest : rest \in Arrangements(s, I \ {i})} :
                   i \in {k \in I : \A j \in I : ~Less(s[j], s[k])}}

SortSlice(s) == Arrangements(s, 1..Len(s))

(* Mutant: a search that falls back on the first task. *)
IndexOfID_DefaultsToFirst(tasks, id) ==
    IF \E j \in 1..Len(tasks) : tasks[j].ID = id
    THEN CHOOSE j \in 1..Len(tasks) : tasks[j].ID = id
    ELSE IF tasks = <<>> THEN 0 ELSE 1

(* Index of the first task with this ID, 0 when there is none. *)
IndexOfID(tasks, id) ==
    IF \E j \in 1..Len(tasks) : tasks[j].ID = id
    THEN CHOOSE j \in 1..Len(tasks) :
            /\ tasks[j].ID = id
            /\ \A k \in 1..(j - 1) : tasks[k].ID # id
    ELSE 0

(* Mutant: the rank written as it is counted in the code, from 0. *)
PositionOfRank_ZeroBased(i) == i - 1

(* Position written for the task at (1-based) rank i of the sorted slice:  *)
(* the code's i + 1 for its 0-based i.                                     *)
PositionOfRank(i) == i

RECURSIVE WritePositions(_, _, _)
WritePositions(tasks, sorted, i) ==
    IF i > Len(sorted) THEN tasks
    ELSE LET j == IndexOfID(tasks, sorted[i].ID)
         IN  WritePositions(
                 IF j = 0 THEN tasks
                 ELSE [tasks EXCEPT ![j].Position = PositionOfRank(i)],
                 sorted, i + 1)

(* The task lists updateQueuePositions can leave behind. *)
updateQueuePositions(tl) ==
    {[tl EXCEPT !.Tasks = WritePositions(tl.Tasks, sorted, 1)] :
        sorted \in SortSlice(pendingOf(tl.Tasks))}

(* saveTasks: reposition, then write the whole list to the file. *)
saveTasks(tl) ==
    /\ saves < MaxSaves
    /\ saves' = saves + 1
    /\ \E t \in updateQueuePositions(tl) :
        /\ taskList' = t
        /\ file' = [exists |-> TRUE, data |-> t]

(********************* calculateEstimatedWaitTime **************************)
(* Mutant: the status of the task is not looked at. *)
CountsTowardsWait_AnyStatus(task, position) == task.Position < position

CountsTowardsWait(task, position) ==
    task.Status = "pending" /\ task.Position < position

RECURSIVE calculateEstimatedWaitTime(_, _)
calculateEstimatedWaitTime(tasks, position) ==
    IF tasks = <<>> THEN 0
    ELSE (IF CountsTowardsWait(Head(tasks), position)
          THEN Head(tasks).EstimatedDuration ELSE 0)
         + calculateEstimatedWaitTime(Tail(tasks), position)

(***************************** formatDuration ******************************)
(* Mutant: a full day still counts as hours. *)
formatDuration_DayAsHours(minutes) ==
    IF minutes < MinutesPerHour
    THEN ToString(minutes) \o " minutes"
    ELSE IF minutes <= MinutesPerDay
    THEN LET hours == minutes \div MinutesPerHour
             mins == minutes % MinutesPerHour
         IN  IF mins = 0
             THEN ToString(hours) \o " hours"
             ELSE ToString(hours) \o " hours, " \o ToString(mins) \o " minutes"
    ELSE LET days == minutes \div MinutesPerDay
             remainingMinutes == minutes % MinutesPerDay
             hours == remainingMinutes \div MinutesPerHour
             mins == remainingMinutes % MinutesPerHour
         IN  ToString(days) \o " days"
             \o (IF hours > 0 THEN ", " \o ToString(hours) \o " hours" ELSE "")
             \o (IF mins > 0 THEN ", " \o ToString(mins) \o " minutes" ELSE "")

formatDuration(minutes) ==
    IF minutes < MinutesPerHour
    THEN ToString(minutes) \o " minutes"
    ELSE IF minutes < MinutesPerDay
    THEN LET hours == minutes \div MinutesPerHour
             mins == minutes % MinutesPerHour
         IN  IF mins = 0
             THEN ToString(hours) \o " hours"
             ELSE ToString(hours) \o " hours, " \o ToString(mins) \o " minutes"
    ELSE LET days == minutes \div MinutesPerDay
             remainingMinutes == minutes % MinutesPerDay
             hours == remainingMinutes \div MinutesPerHour
             mins == remainingMinutes % MinutesPerHour
         IN  ToString(days) \o " days"
             \o (IF hours > 0 THEN ", " \o ToString(hours) \o " hours" ELSE "")
             \o (IF mins > 0 THEN ", " \o ToString(mins) \o " minutes" ELSE "")

(******************************* loadTasks *********************************)
Init ==
    /\ file = [exists |-> FALSE, data |-> ZeroTaskList]
    /\ saves = 0
    /\ taskList = ZeroTaskList
    /\ pc = "exit"
    /\ argv = <<>>
    /\ exitCode = 0
    /\ stderr = ""
    /\ stdout = <<>>

loadTasks ==
    IF ~file.exists
    THEN saveTasks(EmptyTaskList)
    ELSE /\ taskList' = file.data
         /\ UNCHANGED <<file, saves>>

(* Process start: init() runs loadTasks before any command. *)
Load ==
    /\ pc = "exit"
    /\ loadTasks
    /\ pc' = "loaded"
    /\ argv' = <<>>
    /\ exitCode' = 0
    /\ stderr' = ""
    /\ stdout' = <<>>

(* os.Exit(1) after a message on standard error: nothing is saved. *)
Fail(args, msg) ==
    /\ pc' = "exit"
    /\ argv' = args
    /\ exitCode' = 1
    /\ stderr' = msg
    /\ stdout' = <<>>
    /\ UNCHANGED <<file, saves, taskList>>

(* Mutant: a read-only command saves the list on its way out. *)
Report_Saves(args, rows) ==
    /\ pc' = "exit"
    /\ argv' = args
    /\ exitCode' = 0
    /\ stderr' = ""
    /\ stdout' = rows
    /\ saveTasks(taskList)

(* Normal return of a read-only command. *)
Report(args, rows) ==
    /\ pc' = "exit"
    /\ argv' = args
    /\ exitCode' = 0
    /\ stderr' = ""
    /\ stdout' = rows
    /\ UNCHANGED <<file, saves, taskList>>

(* Normal return of a command that changed the list to tl and saved it. *)
SaveAndExit(args, tl) ==
    /\ pc' = "exit"
    /\ argv' = args
    /\ exitCode' = 0
    /\ stderr' = ""
    /\ stdout' = <<>>
    /\ saveTasks(tl)

(********************************* add *************************************)
(* Mutant: the upper end of the priority range is not checked. *)
parsePriority_NoUpperBound(priorityStr) ==
    LET p == Atoi(priorityStr)
    IN  IF ~p.err /\ p.val >= MinPriority THEN p.val ELSE DefaultPriority

parsePriority(priorityStr) ==
    LET p == Atoi(priorityStr)
    IN  IF ~p.err /\ p.val >= MinPriority /\ p.val <= MaxPriority
        THEN p.val ELSE DefaultPriority

(* Mutant: a duration of 0 is taken as given. *)
parseDuration_AllowsZero(durationStr) ==
    LET d == Atoi(durationStr)
    IN  IF ~d.err /\ d.val >= 0 THEN d.val ELSE DefaultDuration

parseDuration(durationStr) ==
    LET d == Atoi(durationStr)
    IN  IF ~d.err /\ d.val > 0 THEN d.val ELSE DefaultDuration

NewTask(id, priority, duration, now) ==
    [ID |-> id, CreatedAt |-> now, CompletedAt |-> ZeroTime,
     EstimatedDuration |-> duration, Priority |-> priority,
     Status |-> "pending", Position |-> 0]

(* Mutant: the counter is left as it is. *)
AppendTask_KeepsNextID(tl, task) ==
    [Tasks |-> Append(tl.Tasks, task), NextID |-> tl.NextID]

(* Mutant: the next identifier derived from the length of the list. *)
AppendTask_IdFromLength(tl, task) ==
    [Tasks |-> Append(tl.Tasks, task), NextID |-> Len(tl.Tasks) + 2]

AppendTask(tl, task) ==
    [Tasks |-> Append(tl.Tasks, task), NextID |-> tl.NextID + 1]

(* The position add looks up after saving (0 when the ID is not found). *)
PositionOfID(tasks, id) ==
    LET j == IndexOfID(tasks, id)
    IN  IF j = 0 THEN 0 ELSE tasks[j].Position

addCmd(priorityStr, durationStr, now) ==
    /\ pc = "loaded"
    /\ LET task == NewTask(taskList.NextID, parsePriority(priorityStr),
                           parseDuration(durationStr), now)
       IN  /\ saveTasks(AppendTask(taskList, task))
           /\ LET position == PositionOfID(taskList'.Tasks, task.ID)
                  waitTime == calculateEstimatedWaitTime(taskList'.Tasks, position)
              IN  stdout' = <<[ID |-> task.ID, Position |-> position,
                               WaitTime |-> formatDuration(waitTime)]>>
    /\ pc' = "exit"
    /\ argv' = <<"add", priorityStr, durationStr>>
    /\ exitCode' = 0
    /\ stderr' = ""

(******************************** list *************************************)
ListMatches(task, status) ==
    status = "" \/ status = "all" \/ task.Status = status

(* Mutant: the position is printed whatever the status. *)
ListRow_AlwaysPosition(task) ==
    [ID |-> task.ID, posStr |-> ToString(task.Position),
     Priority |-> task.Priority, Status |-> task.Status,
     EstimatedDuration |-> task.EstimatedDuration]

ListRow(task) ==
    [ID |-> task.ID,
     posStr |-> IF task.Status = "pending" THEN ToString(task.Position) ELSE "-",
     Priority |-> task.Priority, Status |-> task.Status,
     EstimatedDuration |-> task.EstimatedDuration]

RECURSIVE ListRows(_, _)
ListRows(tasks, status) ==
    IF tasks = <<>> THEN <<>>
    ELSE (IF ListMatches(Head(tasks), status) THEN <<ListRow(Head(tasks))>> ELSE <<>>)
         \o ListRows(Tail(tasks), status)

listCmd(status) ==
    /\ pc = "loaded"
    /\ Report(<<"list", status>>, ListRows(taskList.Tasks, status))

(************************ complete / start / estimate **********************)
CompleteTask(tasks, i, now) ==
    [tasks EXCEPT ![i].Status = "completed", ![i].CompletedAt = now]

(* Mutant: start puts the task back in the queue. *)
StartTask_Requeues(tasks, i) ==
    [tasks EXCEPT ![i].Status = "pending"]

StartTask(tasks, i) ==
    [tasks EXCEPT ![i].Status = "in_progress"]

SetEstimate(tasks, i, duration) ==
    [tasks EXCEPT ![i].EstimatedDuration = duration]

completeCmd(idStr, now) ==
    /\ pc = "loaded"
    /\ LET args == <<"complete", idStr>>
           id == Atoi(idStr)
           i == IndexOfID(taskList.Tasks, id.val)
       IN  IF id.err THEN Fail(args, "Invalid task ID")
           ELSE IF i = 0 THEN Fail(args, "Task not found")
           ELSE SaveAndExit(args,
                    [taskList EXCEPT !.Tasks = CompleteTask(taskList.Tasks, i, now)])

startCmd(idStr) ==
    /\ pc = "loaded"
    /\ LET args == <<"start", idStr>>
           id == Atoi(idStr)
           i == IndexOfID(taskList.Tasks, id.val)
       IN  IF id.err THEN Fail(args, "Invalid task ID")
           ELSE IF i = 0 THEN Fail(args, "Task not found")
           ELSE SaveAndExit(args,
                    [taskList EXCEPT !.Tasks = StartTask(taskList.Tasks, i)])

(* Mutant: only negative durations are turned down. *)
InvalidDuration_AllowsZero(d) == d.err \/ d.val < 0

(* The duration check of estimate: what makes it report Invalid duration. *)
InvalidDuration(d) == d.err \/ d.val <= 0

estimateCmd(idStr, durationStr) ==
    /\ pc = "loaded"
    /\ LET args == <<"estimate", idStr, durationStr>>
           id == Atoi(idStr)
           duration == Atoi(durationStr)
           i == IndexOfID(taskList.Tasks, id.val)
       IN  IF id.err THEN Fail(args, "Invalid task ID")
           ELSE IF InvalidDuration(duration) THEN Fail(args, "Invalid duration")
           ELSE IF i = 0 THEN Fail(args, "Task not found")
           ELSE SaveAndExit(args,
                    [taskList EXCEPT
                        !.Tasks = SetEstimate(taskList.Tasks, i, duration.val)])

(******************************** remove ***********************************)
(* Mutant: the last task takes the place of the removed one. *)
RemoveAt_SwapWithLast(tasks, i) ==
    IF i = Len(tasks) THEN SubSeq(tasks, 1, Len(tasks) - 1)
    ELSE [SubSeq(tasks, 1, Len(tasks) - 1) EXCEPT ![i] = tasks[Len(tasks)]]

RemoveAt(tasks, i) ==
    SubSeq(tasks, 1, i - 1) \o SubSeq(tasks, i + 1, Len(tasks))

removeCmd(idStr) ==
    /\ pc = "loaded"
    /\ LET args == <<"remove", idStr>>
           id == Atoi(idStr)
           taskIndex == IndexOfID(taskList.Tasks, id.val)
       IN  IF id.err THEN Fail(args, "Invalid task ID")
           ELSE IF taskIndex = 0 THEN Fail(args, "Task not found")
           ELSE SaveAndExit(args,
                    [taskList EXCEPT !.Tasks = RemoveAt(taskList.Tasks, taskIndex)])

(******************************** queue ************************************)
QueueRow(tasks, task) ==
    [Position |-> task.Position, ID |-> task.ID, Priority |-> task.Priority,
     EstimatedDuration |-> formatDuration(task.EstimatedDuration),
     waitTime |-> calculateEstimatedWaitTime(tasks, task.Position)]

(* The rows of "Current Queue": one per pending task, in the order the     *)
(* listing loop visits the tasks.                                          *)
RECURSIVE QueueRowsFrom(_, _)
QueueRowsFrom(tasks, rest) ==
    IF rest = <<>> THEN <<>>
    ELSE (IF Head(rest).Status = "pending"
          THEN <<QueueRow(tasks, Head(rest))>> ELSE <<>>)
         \o QueueRowsFrom(tasks, Tail(rest))

CountStatus(tasks, status) ==
    Cardinality({i \in 1..Len(tasks) : tasks[i].Status = status})

RECURSIVE TotalEstimatedTime(_)
TotalEstimatedTime(tasks) ==
    IF tasks = <<>> THEN 0
    ELSE (IF Head(tasks).Status = "pending"
          THEN Head(tasks).EstimatedDuration ELSE 0)
         + TotalEstimatedTime(Tail(tasks))

QueueSummary(tasks) ==
    [pendingTasks |-> CountStatus(tasks, "pending"),
     inProgressTasks |-> CountStatus(tasks, "in_progress"),
     completedTasks |-> CountStatus(tasks, "completed"),
     totalEstimatedTime |-> formatDuration(TotalEstimatedTime(tasks))]

queueInfoCmd ==
    /\ pc = "loaded"
    /\ Report(<<"queue">>,
              <<QueueSummary(taskList.Tasks)>>
              \o (IF CountStatus(taskList.Tasks, "pending") > 0
                  THEN QueueRowsFrom(taskList.Tasks, taskList.Tasks)
                  ELSE <<>>))

(***************************************************************************)
Next ==
    \/ Load
    \/ \E p \in PriorityArgs, d \in DurationArgs, now \in Times : addCmd(p, d, now)
    \/ \E s \in StatusArgs : listCmd(s)
    \/ \E id \in IdArgs, now \in Times : completeCmd(id, now)
    \/ \E id \in IdArgs : startCmd(id)
    \/ \E id \in IdArgs, d \in DurationArgs : estimateCmd(id, d)
    \/ \E id \in IdArgs : removeCmd(id)
    \/ queueInfoCmd

Spec == Init /\ [][Next]_vars

(***************************************************************************)
(* TickingSpec: the program under a wall clock that has moved on at every  *)
(* add: the instant time.Now() gives add is later than the creation time   *)
(* of every task in the list.                                              *)
(***************************************************************************)
TickTimes == Times \cup {Date(2024, 1, 1, 0, 0, 3, 0, 0)}

Ticks(now) ==
    \A i \in 1..Len(taskList.Tasks) : Before(taskList.Tasks[i].CreatedAt, now)

TickingNext ==
    \/ Load
    \/ \E p \in PriorityArgs, d \in DurationArgs, now \in TickTimes :
           Ticks(now) /\ addCmd(p, d, now)
    \/ \E s \in StatusArgs : listCmd(s)
    \/ \E id \in IdArgs, now \in Times : completeCmd(id, now)
    \/ \E id \in IdArgs : startCmd(id)
    \/ \E id \in IdArgs, d \in DurationArgs : estimateCmd(id, d)
    \/ \E id \in IdArgs : removeCmd(id)
    \/ queueInfoCmd

TickingSpec == Init /\ [][TickingNext]_vars

(***************************************************************************)
(* RemoveSpec: the program on a file that earlier invocations have left:   *)
(* the first found no file and wrote the empty list, and MaxQueued adds    *)
(* followed, each saving the list it had loaded with its task appended.    *)
(* No process runs at the start; saves counts the writes from there on.    *)
(* The invocations that follow start and remove tasks.                     *)
(***************************************************************************)
QueuedPriorityArgs == {"abc", "+1"}
QueuedDurationArgs == {"045"}

(* The lists the file can hold when n adds have followed the first write. *)
RECURSIVE Queued(_)
Queued(n) ==
    IF n = 0 THEN updateQueuePositions(EmptyTaskList)
    ELSE UNION {updateQueuePositions(
                    AppendTask(tl, NewTask(tl.NextID, parsePriority(p),
                                           parseDuration(d), now))) :
                    tl \in Queued(n - 1), p \in QueuedPriorityArgs,
                    d \in QueuedDurationArgs, now \in Times}

RemoveInit ==
    /\ file \in {[exists |-> TRUE, data |-> tl] : tl \in Queued(MaxQueued)}
    /\ saves = 0
    /\ taskList = ZeroTaskList
    /\ pc = "exit"
    /\ argv = <<>>
    /\ exitCode = 0
    /\ stderr = ""
    /\ stdout = <<>>

RemoveNext ==
    \/ Load
    \/ \E id \in IdArgs : startCmd(id)
    \/ \E id \in IdArgs : removeCmd(id)

RemoveSpec == RemoveInit /\ [][RemoveNext]_vars

(***************************************************************************)
(* The text of the tasks file: json.MarshalIndent(taskList, "", "  ") and  *)
(* json.Unmarshal, on bytes. A text is a string of ASCII characters, one   *)
(* byte each; a character outside Printable, tab, line feed and carriage   *)
(* return has no translation here and stops the evaluation.                *)
(***************************************************************************)
(* The characters of the codes 32..95 and 97..126, in the order of their   *)
(* codes (a TLA+ string cannot hold the character of code 96).             *)
PrintableLow ==
    " !\"#$%&'()*+,-./0123456789:;<=>?@ABCDEFGHIJKLMNOPQRSTUVWXYZ[\\]^_"

PrintableHigh == "abcdefghijklmnopqrstuvwxyz{|}~"

IsPrintable(c) ==
    \/ \E i \in 1..Len(PrintableLow) : SubSeq(PrintableLow, i, i) = c
    \/ \E i \in 1..Len(PrintableHigh) : SubSeq(PrintableHigh, i, i) = c

Pad2(n) == IF n < 10 THEN "0" \o ToString(n) ELSE ToString(n)

Pad4(n) ==
    IF n < 10 THEN "000" \o ToString(n)
    ELSE IF n < 100 THEN "00" \o ToString(n)
    ELSE IF n < 1000 THEN "0" \o ToString(n)
    ELSE ToString(n)

(* A JSON string as encoding/json writes it: the quote and the backslash   *)
(* behind a backslash, line feed, carriage return and tab as \n, \r, \t,   *)
(* and the characters <, > and & as the escapes of their codes.            *)
EscapeChar(c) ==
    CASE c = "\"" -> "\\\""
      [] c = "\\" -> "\\\\"
      [] c = "\n" -> "\\n"
      [] c = "\r" -> "\\r"
      [] c = "\t" -> "\\t"
      [] c = "<" -> "\\u003c"
      [] c = ">" -> "\\u003e"
      [] c = "&" -> "\\u0026"
      [] c \notin {"\"", "\\", "<", ">", "&"} /\ IsPrintable(c) -> c

RECURSIVE Escaped(_)
Escaped(str) ==
    IF Len(str) = 0 THEN ""
    ELSE EscapeChar(SubSeq(str, 1, 1)) \o Escaped(SubSeq(str, 2, Len(str)))

Quote(str) == "\"" \o Escaped(str) \o "\""

(* The date and the time of day the zone of t shows. *)
LocalTime(t) ==
    LET local == t.sec + t.offset * 60
        civil == CivilFromDays(t.day + local \div SecondsPerDay)
        second == local % SecondsPerDay
    IN  [year |-> civil.year, month |-> civil.month, day |-> civil.day,
         hour |-> second \div 3600,
         minute |-> (second % 3600) \div 60,
         second |-> second % 60]

(* Time.MarshalJSON fails on a year outside 0..9999 and on a zone whose    *)
(* hours are outside 0..23.                                                *)
TimeMarshals(t) ==
    /\ LocalTime(t).year \in 0..9999
    /\ (IF t.offset < 0 THEN 0 - t.offset ELSE t.offset) \div 60 \in 0..23

(* The fraction of RFC3339Nano: nine digits without the zeros at the end,  *)
(* nothing for a whole second.                                             *)
RECURSIVE TrimZeros(_)
TrimZeros(digits) ==
    IF Len(digits) > 0 /\ SubSeq(digits, Len(digits), Len(digits)) = "0"
    THEN TrimZeros(SubSeq(digits, 1, Len(digits) - 1))
    ELSE digits

RECURSIVE PadLeft(_, _)
PadLeft(digits, width) ==
    IF Len(digits) < width THEN PadLeft("0" \o digits, width) ELSE digits

Fraction(nsec) ==
    IF nsec = 0 THEN "" ELSE "." \o TrimZeros(PadLeft(ToString(nsec), 9))

Zone(offset) ==
    IF offset = 0 THEN "Z"
    ELSE LET minutes == IF offset < 0 THEN 0 - offset ELSE offset
         IN  (IF offset < 0 THEN "-" ELSE "+")
                 \o Pad2(minutes \div 60) \o ":" \o Pad2(minutes % 60)

(* Time.MarshalJSON: the time in RFC3339Nano. *)
FormatTime(t) ==
    LET l == LocalTime(t)
    IN  Pad4(l.year) \o "-" \o Pad2(l.month) \o "-" \o Pad2(l.day) \o "T"
            \o Pad2(l.hour) \o ":" \o Pad2(l.minute) \o ":" \o Pad2(l.second)
            \o Fraction(t.nsec) \o Zone(t.offset)

(* One task of the text, at its indentation. *)
MarshalTask(task) ==
    "    {\n"
        \o "      \"id\": " \o ToString(task.ID) \o ",\n"
        \o "      \"description\": " \o Quote(task.Description) \o ",\n"
        \o "      \"requester\": " \o Quote(task.Requester) \o ",\n"
        \o "      \"created_at\": \"" \o FormatTime(task.CreatedAt) \o "\",\n"
        \o "      \"completed_at\": \"" \o FormatTime(task.CompletedAt) \o "\",\n"
        \o "      \"estimated_duration\": " \o ToString(task.EstimatedDuration) \o ",\n"
        \o "      \"priority\": " \o ToString(task.Priority) \o ",\n"
        \o "      \"status\": " \o Quote(task.Status) \o ",\n"
        \o "      \"position\": " \o ToString(task.Position) \o "\n"
        \o "    }"

RECURSIVE MarshalTasks(_)
MarshalTasks(tasks) ==
    IF Len(tasks) = 1 THEN MarshalTask(tasks[1])
    ELSE MarshalTask(Head(tasks)) \o ",\n" \o MarshalTasks(Tail(tasks))

(* json.MarshalIndent(taskList, "", "  "). A list without tasks is the     *)
(* empty slice, never the nil one, in every list the program saves.        *)
MarshalIndent(tl) ==
    "{\n"
        \o "  \"tasks\": "
        \o (IF Len(tl.Tasks) = 0 THEN "[]"
            ELSE "[\n" \o MarshalTasks(tl.Tasks) \o "\n  ]")
        \o ",\n"
        \o "  \"next_id\": " \o ToString(tl.NextID) \o "\n"
        \o "}"

(* MarshalIndent returns an error when a time does not marshal. *)
Marshals(tl) ==
    \A i \in 1..Len(tl.Tasks) :
        TimeMarshals(tl.Tasks[i].CreatedAt) /\ TimeMarshals(tl.Tasks[i].CompletedAt)

(***************************************************************************)
(* json.Unmarshal, first part: the text is read as one JSON value. A value *)
(* is [type, str, raw, items]: type is object, array, string, number,      *)
(* true, false or null; str is the content of a string or the literal of   *)
(* a number; raw is the string as written, escapes and all; items are the  *)
(* members [key, val] of an object or the elements of an array. A scan     *)
(* gives [ok, next, val], next being the place behind what it consumed.    *)
(***************************************************************************)
WhiteSpace == {" ", "\t", "\n", "\r"}

HexDigits == "0123456789abcdef"

UpperHexDigits == "0123456789ABCDEF"

(* The character at place i of s, the empty string behind its end. *)
At(s, i) == IF i >= 1 /\ i <= Len(s) THEN SubSeq(s, i, i) ELSE ""

StartsAt(s, i, word) ==
    i + Len(word) - 1 <= Len(s) /\ SubSeq(s, i, i + Len(word) - 1) = word

RECURSIVE SkipSpace(_, _)
SkipSpace(s, i) == IF At(s, i) \in WhiteSpace THEN SkipSpace(s, i + 1) ELSE i

RECURSIVE SkipDigits(_, _)
SkipDigits(s, i) ==
    IF At(s, i) # "" /\ IsDigit(At(s, i)) THEN SkipDigits(s, i + 1) ELSE i

IsHex(c) ==
    c # "" /\ \E d \in 1..Len(HexDigits) :
                  SubSeq(HexDigits, d, d) = c \/ SubSeq(UpperHexDigits, d, d) = c

HexValue(c) ==
    (CHOOSE d \in 1..Len(HexDigits) :
         SubSeq(HexDigits, d, d) = c \/ SubSeq(UpperHexDigits, d, d) = c) - 1

(* The character of a code: the printable ones, tab, line feed, form feed  *)
(* and carriage return.                                                    *)
CharOfCode(code) ==
    CASE code = 9 -> "\t"
      [] code = 10 -> "\n"
      [] code = 12 -> "\f"
      [] code = 13 -> "\r"
      [] code \in 32..95 -> SubSeq(PrintableLow, code - 31, code - 31)
      [] code \in 97..126 -> SubSeq(PrintableHigh, code - 96, code - 96)

(* The character a backslash and e stand for. *)
Unescape(e) ==
    CASE e = "\"" -> "\""
      [] e = "\\" -> "\\"
      [] e = "/" -> "/"
      [] e = "f" -> "\f"
      [] e = "n" -> "\n"
      [] e = "r" -> "\r"
      [] e = "t" -> "\t"

NoValue == [type |-> "null", str |-> "", raw |-> "", items |-> <<>>]

ScanFails == [ok |-> FALSE, next |-> 0, val |-> NoValue]

Scanned(next, val) == [ok |-> TRUE, next |-> next, val |-> val]

(* A string from behind its opening quote: i is the place, start the place *)
(* behind the quote, acc the content so far.                               *)
RECURSIVE ScanChars(_, _, _, _)
ScanChars(s, start, i, acc) ==
    LET c == At(s, i)
        e == At(s, i + 1)
    IN  IF c = "" \/ c \in {"\t", "\n", "\r", "\f"} THEN ScanFails
        ELSE IF c = "\""
        THEN Scanned(i + 1, [type |-> "string", str |-> acc,
                             raw |-> SubSeq(s, start, i - 1), items |-> <<>>])
        ELSE IF c # "\\" THEN ScanChars(s, start, i + 1, acc \o c)
        ELSE IF e \in {"\"", "\\", "/", "b", "f", "n", "r", "t"}
        THEN ScanChars(s, start, i + 2, acc \o Unescape(e))
        ELSE IF /\ e = "u"
                /\ \A k \in 2..5 : IsHex(At(s, i + k))
        THEN ScanChars(s, start, i + 6,
                       acc \o CharOfCode(4096 * HexValue(At(s, i + 2))
                                         + 256 * HexValue(At(s, i + 3))
                                         + 16 * HexValue(At(s, i + 4))
                                         + HexValue(At(s, i + 5))))
        ELSE ScanFails

ScanString(s, i) == ScanChars(s, i + 1, i + 1, "")

(* A number: -, then 0 or digits that start with 1..9, then a fraction,    *)
(* then an exponent.                                                       *)
ScanNumber(s, i) ==
    LET int == IF At(s, i) = "-" THEN i + 1 ELSE i
        frac == IF At(s, int) = "0" THEN int + 1 ELSE SkipDigits(s, int)
        fracEnd == IF At(s, frac) = "." THEN SkipDigits(s, frac + 1) ELSE frac
        sign == IF At(s, fracEnd) \in {"e", "E"}
                THEN IF At(s, fracEnd + 1) \in {"+", "-"}
                     THEN fracEnd + 2 ELSE fracEnd + 1
                ELSE fracEnd
        end == IF sign > fracEnd THEN SkipDigits(s, sign) ELSE fracEnd
    IN  IF \/ frac = int
           \/ At(s, frac) = "." /\ fracEnd = frac + 1
           \/ sign > fracEnd /\ end = sign
        THEN ScanFails
        ELSE Scanned(end, [type |-> "number", str |-> SubSeq(s, i, end - 1),
                           raw |-> "", items |-> <<>>])

Literal(type) == [type |-> type, str |-> "", raw |-> "", items |-> <<>>]

RECURSIVE ScanValue(_, _)
RECURSIVE ScanMembers(_, _, _)
RECURSIVE ScanElements(_, _, _)

(* The members of an object from the first of them on, acc the members     *)
(* before it.                                                              *)
ScanMembers(s, i, acc) ==
    LET key == ScanString(s, i)
        colon == SkipSpace(s, key.next)
        val == ScanValue(s, colon + 1)
        end == SkipSpace(s, val.next)
        members == Append(acc, [key |-> key.val.str, val |-> val.val])
    IN  IF At(s, i) # "\"" \/ ~key.ok THEN ScanFails
        ELSE IF At(s, colon) # ":" \/ ~val.ok THEN ScanFails
        ELSE IF At(s, end) = "," THEN ScanMembers(s, SkipSpace(s, end + 1), members)
        ELSE IF At(s, end) = "}"
        THEN Scanned(end + 1, [type |-> "object", str |-> "", raw |-> "",
                               items |-> members])
        ELSE ScanFails

ScanElements(s, i, acc) ==
    LET val == ScanValue(s, i)
        end == SkipSpace(s, val.next)
        elements == Append(acc, val.val)
    IN  IF ~val.ok THEN ScanFails
        ELSE IF At(s, end) = "," THEN ScanElements(s, end + 1, elements)
        ELSE IF At(s, end) = "]"
        THEN Scanned(end + 1, [type |-> "array", str |-> "", raw |-> "",
                               items |-> elements])
        ELSE ScanFails

(* One value, the space before it passed over. *)
ScanValue(s, from) ==
    LET i == SkipSpace(s, from)
        c == At(s, i)
        inner == SkipSpace(s, i + 1)
    IN  IF c = "{"
        THEN IF At(s, inner) = "}" THEN Scanned(inner + 1, Literal("object"))
             ELSE ScanMembers(s, inner, <<>>)
        ELSE IF c = "["
        THEN IF At(s, inner) = "]" THEN Scanned(inner + 1, Literal("array"))
             ELSE ScanElements(s, inner, <<>>)
        ELSE IF c = "\"" THEN ScanString(s, i)
        ELSE IF c = "-" \/ (c # "" /\ IsDigit(c)) THEN ScanNumber(s, i)
        ELSE IF StartsAt(s, i, "true") THEN Scanned(i + 4, Literal("true"))
        ELSE IF StartsAt(s, i, "false") THEN Scanned(i + 5, Literal("false"))
        ELSE IF StartsAt(s, i, "null") THEN Scanned(i + 4, Literal("null"))
        ELSE ScanFails

(* The whole text is one value with nothing but space around it. *)
ScanText(s) ==
    LET val == ScanValue(s, 1)
    IN  IF val.ok /\ SkipSpace(s, val.next) > Len(s) THEN val ELSE ScanFails

(***************************************************************************)
(* Time.UnmarshalJSON: the content of the string, as written, is a time in *)
(* RFC 3339: yyyy-mm-ddThh:mm:ss, a fraction of the second or none, and Z  *)
(* or an offset +hh:mm or -hh:mm. A result is [err, stop, val]: a value of *)
(* the wrong type is an error the decoder notes before it goes on with the *)
(* rest of the text; the error of Time.UnmarshalJSON ends the decoding.    *)
(***************************************************************************)
Decoded(val) == [err |-> FALSE, stop |-> FALSE, val |-> val]

Refused(val) == [err |-> TRUE, stop |-> FALSE, val |-> val]

Aborted(val) == [err |-> TRUE, stop |-> TRUE, val |-> val]

IsLeap(year) == year % 4 = 0 /\ (year % 100 # 0 \/ year % 400 = 0)

DaysIn(month, year) ==
    IF month = 2 THEN (IF IsLeap(year) THEN 29 ELSE 28)
    ELSE IF month \in {4, 6, 9, 11} THEN 30
    ELSE 31

RECURSIVE PadRight(_, _)
PadRight(digits, width) ==
    IF Len(digits) < width THEN PadRight(digits \o "0", width) ELSE digits

(* time.Parse with the layout RFC3339, which Time.UnmarshalJSON answers    *)
(* with for every text: the layout is read from left to right, each number *)
(* behind the character that stands before it in the layout. The year has  *)
(* four digits; month, day, minute and second have two; the hour has one   *)
(* or two. A fraction of the second may follow, behind a period or a       *)
(* comma. The zone is Z, or a sign and hh:mm with the hour up to 24 and    *)
(* the minute up to 60. Nothing may follow the zone.                       *)
(***************************************************************************)
(* The parts of the layout behind the year: the character before the       *)
(* number, and whether the number must have two digits.                    *)
ClockLayout ==
    <<[prefix |-> "-", fixed |-> TRUE],    \* month
      [prefix |-> "-", fixed |-> TRUE],    \* day
      [prefix |-> "T", fixed |-> FALSE],   \* hour
      [prefix |-> ":", fixed |-> TRUE],    \* minute
      [prefix |-> ":", fixed |-> TRUE]>>   \* second

ZonePlaces == <<<<1, 2>>, <<4, 5>>>>

(* The numbers at places of s, counted from base; 0 - 1 where the text has *)
(* no digits there.                                                        *)
NumbersAt(s, base, places) ==
    [k \in 1..Len(places) |->
        LET word == SubSeq(s, base + places[k][1], base + places[k][2])
        IN  IF base + places[k][2] <= Len(s) /\ AllDigits(word)
            THEN DecimalValue(word) ELSE 0 - 1]

DigitAt(s, i) == At(s, i) # "" /\ IsDigit(At(s, i))

(* getnum: the number of two digits at place i of s, or of one digit when  *)
(* no second digit follows and the layout does not ask for two.            *)
GetNum(s, i, fixed) ==
    IF ~DigitAt(s, i) THEN [ok |-> FALSE, val |-> 0, next |-> i]
    ELSE IF DigitAt(s, i + 1)
    THEN [ok |-> TRUE, val |-> DecimalValue(SubSeq(s, i, i + 1)), next |-> i + 2]
    ELSE [ok |-> ~fixed, val |-> DigitValue(At(s, i)), next |-> i + 1]

(* The numbers of the parts k.. of ClockLayout, read from place i of s on, *)
(* behind the numbers acc of the parts before.                             *)
RECURSIVE GetNums(_, _, _, _)
NextNum(s, k, acc, n) ==
    IF n.ok THEN GetNums(s, n.next, k + 1, Append(acc, n.val))
    ELSE [ok |-> FALSE, nums |-> acc, next |-> n.next]

GetNums(s, i, k, acc) ==
    IF k > Len(ClockLayout) THEN [ok |-> TRUE, nums |-> acc, next |-> i]
    ELSE IF At(s, i) # ClockLayout[k].prefix
    THEN [ok |-> FALSE, nums |-> acc, next |-> i]
    ELSE NextNum(s, k, acc, GetNum(s, i + 1, ClockLayout[k].fixed))

(* The date and the time of day are in their ranges. *)
ClockInRange(n) ==
    /\ n[1] \in 0..9999
    /\ n[2] \in 1..12
    /\ n[3] \in 1..DaysIn(n[2], n[1])
    /\ n[4] \in 0..23
    /\ n[5] \in 0..59
    /\ n[6] \in 0..59

(* The text behind the seconds: the nanoseconds of a fraction, of which    *)
(* nine digits count, and the place behind it.                             *)
FractionAt(raw, i) ==
    IF At(raw, i) \in {".", ","} /\ DigitAt(raw, i + 1)
    THEN LET end == SkipDigits(raw, i + 1)
             digits == SubSeq(raw, i + 1, IF end > i + 10 THEN i + 9 ELSE end - 1)
         IN  [nsec |-> DecimalValue(PadRight(digits, 9)), next |-> end]
    ELSE [nsec |-> 0, next |-> i]

(* The zone from place i to the end of the text: Z, or a sign and hh:mm,   *)
(* z the two numbers.                                                      *)
ZoneAt(raw, i, z) ==
    IF At(raw, i) = "Z" THEN [ok |-> Len(raw) = i, offset |-> 0]
    ELSE IF /\ Len(raw) = i + 5
            /\ At(raw, i) \in {"+", "-"}
            /\ At(raw, i + 3) = ":"
            /\ z[1] \in 0..24
            /\ z[2] \in 0..60
    THEN [ok |-> TRUE,
          offset |-> IF At(raw, i) = "-" THEN 0 - (60 * z[1] + z[2])
                     ELSE 60 * z[1] + z[2]]
    ELSE [ok |-> FALSE, offset |-> 0]

TimeOf(n, fraction, zone) ==
    IF ClockInRange(n) /\ zone.ok
    THEN Decoded(Date(n[1], n[2], n[3], n[4], n[5], n[6], fraction.nsec, zone.offset))
    ELSE Aborted(ZeroTime)

ZonedTime(raw, n, fraction) ==
    TimeOf(n, fraction,
           ZoneAt(raw, fraction.next, NumbersAt(raw, fraction.next, ZonePlaces)))

ClockTime(raw, year, clock) ==
    IF clock.ok
    THEN ZonedTime(raw, <<year>> \o clock.nums, FractionAt(raw, clock.next))
    ELSE Aborted(ZeroTime)

ParseTime(raw) ==
    IF Len(raw) >= 4 /\ AllDigits(SubSeq(raw, 1, 4))
    THEN ClockTime(raw, DecimalValue(SubSeq(raw, 1, 4)), GetNums(raw, 5, 1, <<>>))
    ELSE Aborted(ZeroTime)

(***************************************************************************)
(* json.Unmarshal, second part: the value is stored into the task list,    *)
(* each value by the type of the field it is for. A key names the field    *)
(* whose tag it equals, letter case apart; a key that names none is passed *)
(* over; null leaves a number, a string, a time and a struct as they are   *)
(* and empties the slice of tasks.                                         *)
(***************************************************************************)
UpperLetters == "ABCDEFGHIJKLMNOPQRSTUVWXYZ"

LowerLetters == "abcdefghijklmnopqrstuvwxyz"

LowerChar(c) ==
    IF \E i \in 1..Len(UpperLetters) : SubSeq(UpperLetters, i, i) = c
    THEN LET i == CHOOSE k \in 1..Len(UpperLetters) : SubSeq(UpperLetters, k, k) = c
         IN  SubSeq(LowerLetters, i, i)
    ELSE c

RECURSIVE Lower(_)
Lower(str) ==
    IF Len(str) = 0 THEN ""
    ELSE LowerChar(SubSeq(str, 1, 1)) \o Lower(SubSeq(str, 2, Len(str)))

(* The zero value of Task. *)
ZeroTask ==
    [ID |-> 0, Description |-> "", Requester |-> "", CreatedAt |-> ZeroTime,
     CompletedAt |-> ZeroTime, EstimatedDuration |-> 0, Priority |-> 0,
     Status |-> "", Position |-> 0]

(* The json tags of Task and of TaskList: the field of each key, and the   *)
(* type of each field.                                                     *)
TaskTags ==
    [id |-> "ID", description |-> "Description", requester |-> "Requester",
     created_at |-> "CreatedAt", completed_at |-> "CompletedAt",
     estimated_duration |-> "EstimatedDuration", priority |-> "Priority",
     status |-> "Status", position |-> "Position"]

TaskListTags == [tasks |-> "Tasks", next_id |-> "NextID"]

FieldTypes ==
    [ID |-> "int", Description |-> "string", Requester |-> "string",
     CreatedAt |-> "time.Time", CompletedAt |-> "time.Time",
     EstimatedDuration |-> "int", Priority |-> "int", Status |-> "string",
     Position |-> "int", Tasks |-> "[]Task", NextID |-> "int"]

TagsOf(type) == IF type = "Task" THEN TaskTags ELSE TaskListTags

IntOf(v, old, n) == IF n.err THEN Refused(old) ELSE Decoded(n.val)

DecodeInt(v, old) ==
    IF v.type = "null" THEN Decoded(old)
    ELSE IF v.type = "number" THEN IntOf(v, old, Atoi(v.str))
    ELSE Refused(old)

DecodeString(v, old) ==
    IF v.type = "null" THEN Decoded(old)
    ELSE IF v.type = "string" THEN Decoded(v.str)
    ELSE Refused(old)

DecodeTime(v, old) ==
    IF v.type = "null" THEN Decoded(old)
    ELSE IF v.type = "string" THEN ParseTime(v.raw)
    ELSE Aborted(old)

(* The result r of a part of a value put in its place, and the result of   *)
(* the parts before it joined with that of the rest.                       *)
Stored(struct, field, r) == [r EXCEPT !.val = [struct EXCEPT ![field] = r.val]]

Joined(first, rest) ==
    [err |-> first.err \/ rest.err, stop |-> rest.stop, val |-> rest.val]

(* A slice while it is decoded into: its length and its array, as far as   *)
(* places of the array have been written. Behind them the array holds zero *)
(* values; a place behind the length keeps what was last written there.    *)
SliceOf(tasks) == [array |-> tasks, len |-> Len(tasks)]

NilSlice == [array |-> <<>>, len |-> 0]

ElementsOf(slice) == SubSeq(slice.array, 1, slice.len)

(* The slice with element i written, the length raised to i when it was    *)
(* shorter.                                                                *)
WithElement(slice, i, task) ==
    [array |-> IF i <= Len(slice.array) THEN [slice.array EXCEPT ![i] = task]
               ELSE Append(slice.array, task),
     len |-> IF i > slice.len THEN i ELSE slice.len]

RECURSIVE DecodeValue(_, _, _)
RECURSIVE DecodeFields(_, _, _)
RECURSIVE DecodeRest(_, _, _)
RECURSIVE DecodeElements(_, _, _)
RECURSIVE DecodeNext(_, _, _, _)

(* One member of an object into the struct. *)
DecodeField(type, struct, key, v) ==
    IF key \in DOMAIN TagsOf(type)
    THEN Stored(struct, TagsOf(type)[key],
                DecodeValue(FieldTypes[TagsOf(type)[key]], v,
                            struct[TagsOf(type)[key]]))
    ELSE Decoded(struct)

(* The members of an object into the struct, in their order. *)
DecodeFields(type, struct, members) ==
    IF Len(members) = 0 THEN Decoded(struct)
    ELSE DecodeRest(type, Tail(members),
                    DecodeField(type, struct, Lower(Head(members).key),
                                Head(members).val))

DecodeRest(type, members, first) ==
    IF first.stop THEN first
    ELSE Joined(first, DecodeFields(type, first.val, members))

(* The elements of an array into the slice, from element i on: the element *)
(* is decoded into the place i of the array, whatever that holds, and the  *)
(* length is raised to i when it was shorter. Behind the last element the  *)
(* slice is cut to their number; an array without elements leaves a new    *)
(* empty slice. An error that ends the decoding leaves the slice uncut.    *)
DecodeElements(elements, slice, i) ==
    IF i > Len(elements)
    THEN Decoded(IF Len(elements) = 0 THEN NilSlice
                 ELSE [slice EXCEPT !.len = Len(elements)])
    ELSE DecodeNext(elements, slice, i,
                    DecodeValue("Task", elements[i],
                                IF i <= Len(slice.array) THEN slice.array[i]
                                ELSE ZeroTask))

DecodeNext(elements, slice, i, first) ==
    IF first.stop THEN [first EXCEPT !.val = WithElement(slice, i, first.val)]
    ELSE Joined(first, DecodeElements(elements,
                                      WithElement(slice, i, first.val), i + 1))

DecodeValue(type, v, old) ==
    CASE type = "int" -> DecodeInt(v, old)
      [] type = "string" -> DecodeString(v, old)
      [] type = "time.Time" -> DecodeTime(v, old)
      [] type = "[]Task" ->
             IF v.type = "null" THEN Decoded(NilSlice)
             ELSE IF v.type = "array" THEN DecodeElements(v.items, old, 1)
             ELSE Refused(old)
      [] type \in {"Task", "TaskList"} ->
             IF v.type = "null" THEN Decoded(old)
             ELSE IF v.type = "object" THEN DecodeFields(type, old, v.items)
             ELSE Refused(old)

DecodeText(text, tl) ==
    IF text.ok THEN DecodeValue("TaskList", text.val, tl) ELSE Refused(tl)

(* The task list the decoding has left, its slice as the program sees it. *)
Unsliced(r) == [r EXCEPT !.val = [r.val EXCEPT !.Tasks = ElementsOf(r.val.Tasks)]]

(* json.Unmarshal(data, &taskList), taskList being tl. *)
Unmarshal(data, tl) ==
    Unsliced(DecodeText(ScanText(data), [tl EXCEPT !.Tasks = SliceOf(tl.Tasks)]))

(***************************************************************************)
(* ConcSpec: two invocations of the program at once on the one file, with  *)
(* nothing to coordinate them. Each process has its own taskList, pc,      *)
(* argv, exitCode, stderr and stdout, so under ConcSpec these variables    *)
(* hold one value per process; file and saves are shared. A step of a      *)
(* process is one system call on the file together with the computation    *)
(* before it: the stat of os.Stat; of os.ReadFile the open, the fstat and  *)
(* each read; of os.WriteFile the open, which empties the file, and the    *)
(* write. Steps of the other process may come between any two of them.     *)
(*                                                                         *)
(* The file is its bytes, the text json.MarshalIndent made and whatever a  *)
(* shorter text left behind it. pc[p] is where the process is (at), the    *)
(* bytes os.ReadFile has read (data) and the capacity of its buffer (cap). *)
(* Tasks carry the Description and the Requester here.                     *)
(***************************************************************************)
Procs == {1, 2}

(* The arguments the concurrent invocations are run with: an accepted      *)
(* priority and duration, a description with a character that is written   *)
(* as an escape, no requester, and two instants in two zones, whose        *)
(* created_at are texts of two lengths.                                    *)
ConcPriorityArgs == {"+1"}
ConcDurationArgs == {"045"}
ConcDescriptions == {"R&D"}
ConcTimes == {Date(2024, 1, 1, 0, 0, 1, 500000000, 0), Date(2024, 1, 1, 2, 0, 2, 0, 120)}

NoFile == [exists |-> FALSE, bytes |-> ""]

Position(at) == [at |-> at, data |-> "", cap |-> 0]

(* os.ReadFile: the buffer has room for the size fstat gave and one byte   *)
(* more, and for 512 bytes at least.                                       *)
BufferFor(size) == IF size + 1 < 512 THEN 512 ELSE size + 1

(* The sizes the allocator hands out, up to 4096 bytes. *)
SizeClasses ==
    {512, 576, 640, 704, 768, 896, 1024, 1152, 1280, 1408, 1536, 1792, 2048,
     2304, 2688, 3072, 3200, 3456, 4096}

RoundUpSize(size) ==
    CHOOSE class \in SizeClasses :
        class >= size /\ \A other \in SizeClasses : other >= size => class <= other

(* append of one byte to a full buffer of cap bytes, cap 512 or more: the  *)
(* capacity grows by a quarter of itself and 192 bytes, or, in the older   *)
(* runtimes, doubles below 1024 bytes and grows by a quarter from there    *)
(* on; the allocator rounds it up.                                         *)
GrownCaps(cap) ==
    {RoundUpSize(cap + (cap + 768) \div 4),
     RoundUpSize(IF cap < 1024 THEN 2 * cap ELSE cap + cap \div 4)}

ConcInit ==
    /\ file = NoFile
    /\ saves = 0
    /\ taskList = [p \in Procs |-> ZeroTaskList]
    /\ pc = [p \in Procs |-> Position("exit")]
    /\ argv = [p \in Procs |-> <<>>]
    /\ exitCode = [p \in Procs |-> 0]
    /\ stderr = [p \in Procs |-> ""]
    /\ stdout = [p \in Procs |-> <<>>]

(* Process p starts: loadTasks up to os.Stat. *)
ConcStat(p) ==
    /\ pc[p].at = "exit"
    /\ taskList' = [taskList EXCEPT ![p] =
                       IF file.exists THEN ZeroTaskList ELSE EmptyTaskList]
    /\ pc' = [pc EXCEPT ![p] = Position(IF file.exists THEN "open" ELSE "create")]
    /\ argv' = [argv EXCEPT ![p] = <<>>]
    /\ exitCode' = [exitCode EXCEPT ![p] = 0]
    /\ stderr' = [stderr EXCEPT ![p] = ""]
    /\ stdout' = [stdout EXCEPT ![p] = <<>>]
    /\ UNCHANGED <<file, saves>>

(* os.ReadFile in p opens the file, which os.Stat found and which nothing  *)
(* removes.                                                                *)
ConcOpenFile(p) ==
    /\ pc[p].at = "open"
    /\ pc' = [pc EXCEPT ![p] = Position("fstat")]
    /\ UNCHANGED <<file, saves, taskList, argv, exitCode, stderr, stdout>>

(* The fstat of os.ReadFile in p: the buffer is made for the size the file *)
(* has now.                                                                *)
ConcFstat(p) ==
    /\ pc[p].at = "fstat"
    /\ pc' = [pc EXCEPT ![p] =
                 [at |-> "read", data |-> "", cap |-> BufferFor(Len(file.bytes))]]
    /\ UNCHANGED <<file, saves, taskList, argv, exitCode, stderr, stdout>>

(* One read of os.ReadFile in p: the bytes the file has now behind those   *)
(* read so far, as many as the buffer has room for; a buffer that is full  *)
(* then grows. When no byte is there the file is at its end: os.ReadFile   *)
(* returns and loadTasks goes on with json.Unmarshal, which gives the list *)
(* or ends the process with exit code 1.                                   *)
ConcRead(p) ==
    /\ pc[p].at = "read"
    /\ LET data == pc[p].data
           room == pc[p].cap - Len(data)
           left == Len(file.bytes) - Len(data)
           n == IF room < left THEN room ELSE left
       IN  IF n > 0
           THEN /\ \E cap \in (IF n = room THEN GrownCaps(pc[p].cap) ELSE {pc[p].cap}) :
                       pc' = [pc EXCEPT ![p] =
                                 [at |-> "read",
                                  data |-> data \o SubSeq(file.bytes, Len(data) + 1,
                                                          Len(data) + n),
                                  cap |-> cap]]
                /\ UNCHANGED <<taskList, exitCode, stderr>>
           ELSE \E parsed \in {Unmarshal(data, ZeroTaskList)} :
                /\ taskList' = [taskList EXCEPT ![p] = parsed.val]
                /\ IF parsed.err
                   THEN /\ pc' = [pc EXCEPT ![p] = Position("exit")]
                        /\ exitCode' = [exitCode EXCEPT ![p] = 1]
                        /\ stderr' = [stderr EXCEPT ![p] = "Error parsing tasks file"]
                   ELSE /\ pc' = [pc EXCEPT ![p] = Position("loaded")]
                        /\ UNCHANGED <<exitCode, stderr>>
    /\ UNCHANGED <<file, saves, argv, stdout>>

(* saveTasks of p up to the open of os.WriteFile: the list tl is           *)
(* positioned and made a text, and the open empties the file; a list that  *)
(* cannot be made a text ends the process with exit code 1.                *)
ConcOpen(p, tl, then) ==
    /\ saves < MaxConcSaves
    /\ \E t \in updateQueuePositions(tl) :
           /\ taskList' = [taskList EXCEPT ![p] = t]
           /\ IF Marshals(t)
              THEN /\ saves' = saves + 1
                   /\ file' = [exists |-> TRUE, bytes |-> ""]
                   /\ pc' = [pc EXCEPT ![p] = Position(then)]
                   /\ UNCHANGED <<exitCode, stderr>>
              ELSE /\ pc' = [pc EXCEPT ![p] = Position("exit")]
                   /\ exitCode' = [exitCode EXCEPT ![p] = 1]
                   /\ stderr' = [stderr EXCEPT ![p] = "Error serializing tasks"]
                   /\ UNCHANGED <<file, saves>>

(* saveTasks of the fresh list, when os.Stat found no file. *)
ConcCreate(p) ==
    /\ pc[p].at = "create"
    /\ ConcOpen(p, taskList[p], "create_write")
    /\ UNCHANGED <<argv, stdout>>

(* The add command of p up to the open of os.WriteFile. *)
ConcAdd(p, priorityStr, durationStr, description, now) ==
    /\ pc[p].at = "loaded"
    /\ LET task == [Description |-> description, Requester |-> ""]
                       @@ NewTask(taskList[p].NextID, parsePriority(priorityStr),
                                  parseDuration(durationStr), now)
       IN  ConcOpen(p, AppendTask(taskList[p], task), "add_write")
    /\ argv' = [argv EXCEPT ![p] = <<"add", priorityStr, durationStr>>]
    /\ UNCHANGED stdout

(* The write of os.WriteFile in p, from the start of the file: bytes the   *)
(* file has behind the text stay. Then loadTasks returns, or add reports   *)
(* the task it appended and the process ends.                              *)
ConcWrite(p) ==
    /\ pc[p].at \in {"create_write", "add_write"}
    /\ \E text \in {MarshalIndent(taskList[p])} :
           file' = [exists |-> TRUE,
                    bytes |-> text \o SubSeq(file.bytes, Len(text) + 1, Len(file.bytes))]
    /\ IF pc[p].at = "create_write"
       THEN /\ pc' = [pc EXCEPT ![p] = Position("loaded")]
            /\ UNCHANGED stdout
       ELSE LET tasks == taskList[p].Tasks
                id == tasks[Len(tasks)].ID
                position == PositionOfID(tasks, id)
                waitTime == calculateEstimatedWaitTime(tasks, position)
            IN  /\ pc' = [pc EXCEPT ![p] = Position("exit")]
                /\ stdout' = [stdout EXCEPT ![p] =
                                 <<[ID |-> id, Position |-> position,
                                    WaitTime |-> formatDuration(waitTime)]>>]
    /\ UNCHANGED <<saves, taskList, argv, exitCode, stderr>>

ConcNext ==
    \E p \in Procs :
        \/ ConcStat(p)
        \/ ConcOpenFile(p)
        \/ ConcFstat(p)
        \/ ConcRead(p)
        \/ ConcCreate(p)
        \/ \E pr \in ConcPriorityArgs, d \in ConcDurationArgs,
              desc \in ConcDescriptions, now \in ConcTimes :
               ConcAdd(p, pr, d, desc, now)
        \/ ConcWrite(p)

ConcSpec == ConcInit /\ [][ConcNext]_vars

(***************************************************************************)
(* FormatSpec: formatDuration on its own. A call starts with the minute    *)
(* count, any of 0..MaxMinutes, in argv and returns the string in stdout.  *)
(***************************************************************************)
FormatInit ==
    /\ file = [exists |-> FALSE, data |-> ZeroTaskList]
    /\ saves = 0
    /\ taskList = ZeroTaskList
    /\ pc = "format"
    /\ argv \in {<<m>> : m \in 0..MaxMinutes}
    /\ exitCode = 0
    /\ stderr = ""
    /\ stdout = <<>>

FormatCall ==
    /\ pc = "format"
    /\ pc' = "formatted"
    /\ stdout' = <<formatDuration(argv[1])>>
    /\ UNCHANGED <<file, saves, taskList, argv, exitCode, stderr>>

FormatSpec == FormatInit /\ [][FormatCall]_vars

(***************************************************************************)
(*                              Properties                                 *)
(***************************************************************************)
IDs(tl) == {tl.Tasks[i].ID : i \in 1..Len(tl.Tasks)}

PendingIdx(tl) == {i \in 1..Len(tl.Tasks) : tl.Tasks[i].Status = "pending"}

Ran(cmd) == pc = "exit" /\ Len(argv) > 0 /\ argv[1] = cmd

(* What one step may do to the identifiers of a task list. *)
IdentifiersStep(old, new) ==
    /\ new.NextID >= old.NextID
    /\ \A i, j \in 1..Len(new.Tasks) : i # j => new.Tasks[i].ID # new.Tasks[j].ID
    /\ \A id \in IDs(new) : id < new.NextID
    /\ \A id \in IDs(new) \ IDs(old) : id >= old.NextID

(* C1: in every step, of the list in memory and of the list in the file:   *)
(* the identifiers are pairwise distinct and all below the next-identifier *)
(* counter, the counter does not decrease, and an identifier that appears  *)
(* is at least the counter before the step; so no identifier that was ever *)
(* assigned is assigned again, also after its task was removed.            *)
C1_IdentifiersNeverReused ==
    [][/\ IdentifiersStep(taskList, taskList')
       /\ IdentifiersStep(file.data, file'.data)]_vars

(* C1 witness: task 1 was added and removed, and a later add got 2. *)
C1_Witness ==
    /\ Ran("add")
    /\ file.data.NextID = 3
    /\ IDs(file.data) = {2}

(* C2: in every persisted state the positions of the pending tasks are     *)
(* exactly 1..N, N the number of pending tasks, no two of them equal.      *)
C2_PendingPositionsContiguous ==
    file.exists =>
        LET tl == file.data
            N == Cardinality(PendingIdx(tl))
        IN  /\ {tl.Tasks[i].Position : i \in PendingIdx(tl)} = 1..N
            /\ \A i, j \in PendingIdx(tl) :
                   i # j => tl.Tasks[i].Position # tl.Tasks[j].Position

(* C2 witness: of two queued tasks the first was started; it keeps its     *)
(* stale position 1 and the other one moved up to position 1.              *)
C2_Witness ==
    /\ Ran("start")
    /\ file.exists
    /\ Len(file.data.Tasks) = 2
    /\ file.data.Tasks[1].Status = "in_progress"
    /\ file.data.Tasks[1].Position = 1
    /\ file.data.Tasks[2].Status = "pending"
    /\ file.data.Tasks[2].Position = 1

(* C3: in every persisted state, of two pending tasks the one with the     *)
(* smaller priority number, or with the same priority and the strictly     *)
(* earlier creation time, has the smaller position.                        *)
C3_PriorityThenCreationOrder ==
    file.exists =>
        \A i, j \in PendingIdx(file.data) :
            LET a == file.data.Tasks[i]
                b == file.data.Tasks[j]
            IN  (\/ a.Priority < b.Priority
                 \/ a.Priority = b.Priority /\ Before(a.CreatedAt, b.CreatedAt))
                => a.Position < b.Position

(* C3 witness: three pending tasks; one added later has the higher         *)
(* priority, and one added later has the same priority and the earlier     *)
(* creation time.                                                          *)
C3_Witness ==
    /\ file.exists
    /\ Cardinality(PendingIdx(file.data)) = 3
    /\ \E i, j \in PendingIdx(file.data) :
           i < j /\ file.data.Tasks[j].Priority < file.data.Tasks[i].Priority
    /\ \E i, j \in PendingIdx(file.data) :
           /\ i < j
           /\ file.data.Tasks[j].Priority = file.data.Tasks[i].Priority
           /\ Before(file.data.Tasks[j].CreatedAt, file.data.Tasks[i].CreatedAt)

(* The duration of the pending task at position p, 0 when no pending task  *)
(* or more than one is there.                                              *)
DurationAtPosition(tl, p) ==
    LET at == {i \in PendingIdx(tl) : tl.Tasks[i].Position = p}
    IN  IF Cardinality(at) = 1
        THEN tl.Tasks[CHOOSE i \in at : TRUE].EstimatedDuration
        ELSE 0

RECURSIVE SumOfFirst(_, _)
SumOfFirst(tl, n) ==
    IF n <= 0 THEN 0 ELSE DurationAtPosition(tl, n) + SumOfFirst(tl, n - 1)

(* C4: on freshly positioned state (after a load or a save) the wait time  *)
(* of every position P in 1..N+1 is the sum of the durations of the        *)
(* pending tasks at positions 1..P-1, whatever the stale positions of the  *)
(* other tasks; the wait time of position 1 is 0; and the queue command    *)
(* computes exactly this for every row.                                    *)
C4_WaitTimeIsSumOfEarlierPositions ==
    LET N == Cardinality(PendingIdx(taskList))
    IN  /\ \A P \in 1..(N + 1) :
               calculateEstimatedWaitTime(taskList.Tasks, P)
                   = SumOfFirst(taskList, P - 1)
        /\ calculateEstimatedWaitTime(taskList.Tasks, 1) = 0
        /\ Ran("queue") =>
               \A r \in 2..Len(stdout) :
                   stdout[r].waitTime = SumOfFirst(taskList, stdout[r].Position - 1)

(* C4 witness: the queue command ran on a list where a task that is no     *)
(* longer pending keeps the stale position 1; the wait time of position 2  *)
(* is the duration of the one pending task, at position 1, alone.          *)
C4_Witness ==
    /\ Ran("queue")
    /\ Len(stdout) = 2
    /\ stdout[2].Position = 1
    /\ stdout[2].waitTime = 0
    /\ \E i, j \in 1..Len(taskList.Tasks) :
           /\ taskList.Tasks[i].Status # "pending"
           /\ taskList.Tasks[i].Position = 1
           /\ taskList.Tasks[j].Status = "pending"
           /\ calculateEstimatedWaitTime(taskList.Tasks, 2)
                  = taskList.Tasks[j].EstimatedDuration

(* A command step: the process that loaded the list runs its command. *)
CommandStep == pc = "loaded" /\ pc' = "exit"

NothingChanged == taskList' = taskList /\ file' = file /\ saves' = saves

(* The identifier argument is a number that no task of the list carries. *)
MissingID(idStr) == ~Atoi(idStr).err /\ Atoi(idStr).val \notin IDs(taskList)

PositiveNumber(str) == ~Atoi(str).err /\ Atoi(str).val > 0

ReportsNotFound == stderr' = "Task not found" /\ exitCode' = 1

(* C5 as claimed: complete, start, estimate and remove with an identifier  *)
(* that matches no task report NotFound, end with an error and leave the   *)
(* list in memory and the file unchanged.                                  *)
C5_Original ==
    [][(CommandStep /\ argv'[1] \in {"complete", "start", "estimate", "remove"}
            /\ MissingID(argv'[2]))
       => (ReportsNotFound /\ NothingChanged)]_vars

(* C5 amended: complete, start and remove with an identifier that matches  *)
(* no task, and estimate with such an identifier and a duration that is a  *)
(* positive number, report NotFound; estimate with such an identifier and  *)
(* any other duration reports the invalid duration instead; all of them    *)
(* end with an error and leave the list in memory and the file unchanged.  *)
C5_NotFoundLeavesStateUnchanged ==
    [][(CommandStep /\ argv'[1] \in {"complete", "start", "estimate", "remove"}
            /\ MissingID(argv'[2]))
       => /\ NothingChanged
          /\ exitCode' = 1
          /\ IF argv'[1] = "estimate" /\ ~PositiveNumber(argv'[3])
             THEN stderr' = "Invalid duration"
             ELSE stderr' = "Task not found"]_vars

(* C5 witness: remove of an identifier no task carries, on a list that     *)
(* holds tasks, was turned down with NotFound.                             *)
C5_Witness ==
    /\ Ran("remove")
    /\ argv[2] = "11"
    /\ stderr = "Task not found"
    /\ exitCode = 1
    /\ Len(taskList.Tasks) = 2
    /\ file.data = taskList

(* A task with its position blanked, to compare all the other fields. *)
WithoutPosition(task) == [task EXCEPT !.Position = 0]

(* C6: estimate with a duration that is not a positive number fails with   *)
(* InvalidInput and changes neither the list nor the file, also when the   *)
(* identifier matches a task; with a positive duration d and the           *)
(* identifier of a task it succeeds, that task's estimated duration is d   *)
(* and no other field but positions changes in any task.                   *)
C6_EstimateValidatesDuration ==
    [][(CommandStep /\ argv'[1] = "estimate")
       => /\ ~PositiveNumber(argv'[3])
             => /\ exitCode' = 1
                /\ stderr' \in {"Invalid task ID", "Invalid duration"}
                /\ ~Atoi(argv'[2]).err => stderr' = "Invalid duration"
                /\ NothingChanged
          /\ (PositiveNumber(argv'[3]) /\ ~Atoi(argv'[2]).err /\ ~MissingID(argv'[2]))
             => /\ exitCode' = 0
                /\ file'.data = taskList'
                /\ taskList'.NextID = taskList.NextID
                /\ Len(taskList'.Tasks) = Len(taskList.Tasks)
                /\ \A i \in 1..Len(taskList.Tasks) :
                       WithoutPosition(taskList'.Tasks[i]) =
                           IF taskList.Tasks[i].ID = Atoi(argv'[2]).val
                           THEN [WithoutPosition(taskList.Tasks[i])
                                    EXCEPT !.EstimatedDuration = Atoi(argv'[3]).val]
                           ELSE WithoutPosition(taskList.Tasks[i])]_vars

(* C6 witness: estimate of an existing task with duration 0 was turned     *)
(* down and the task keeps the duration it was given.                      *)
C6_Witness ==
    /\ Ran("estimate")
    /\ argv[2] = "1" /\ argv[3] = "0"
    /\ stderr = "Invalid duration"
    /\ \E i \in 1..Len(file.data.Tasks) :
           file.data.Tasks[i].ID = 1 /\ file.data.Tasks[i].EstimatedDuration = 45

(* The priority and the duration add is claimed to give a task. *)
ClaimedPriority(str) ==
    IF ~Atoi(str).err /\ Atoi(str).val \in 1..5 THEN Atoi(str).val ELSE 3

ClaimedDuration(str) == IF PositiveNumber(str) THEN Atoi(str).val ELSE 30

(* C7: add never fails on its priority or duration: it ends with success,  *)
(* appends exactly one task, pending, whose priority is the one given when *)
(* that is a number in 1..5 and 3 otherwise, whose duration is the one     *)
(* given when that is a positive number and 30 otherwise, and the list     *)
(* with that task is what the file holds.                                  *)
C7_AddDefaultsInvalidInput ==
    [][(CommandStep /\ argv'[1] = "add")
       => /\ exitCode' = 0 /\ stderr' = ""
          /\ Len(taskList'.Tasks) = Len(taskList.Tasks) + 1
          /\ LET new == taskList'.Tasks[Len(taskList'.Tasks)]
             IN  /\ new.ID = taskList.NextID
                 /\ new.Status = "pending"
                 /\ new.Priority = ClaimedPriority(argv'[2])
                 /\ new.EstimatedDuration = ClaimedDuration(argv'[3])
          /\ file'.exists /\ file'.data = taskList']_vars

(* C7 witness: add with priority 6 and duration abc stored a pending task  *)
(* with priority 3 and duration 30.                                        *)
C7_Witness ==
    /\ Ran("add")
    /\ argv[2] = "6" /\ argv[3] = "abc"
    /\ exitCode = 0
    /\ LET new == file.data.Tasks[Len(file.data.Tasks)]
       IN  new.Priority = 3 /\ new.EstimatedDuration = 30 /\ new.Status = "pending"

WellFormed(task) ==
    /\ task.Priority \in 1..5
    /\ task.EstimatedDuration > 0
    /\ task.Status \in {"pending", "in_progress", "completed"}

(* C8: every task of the list in memory and of the list in the file has a  *)
(* priority in 1..5, an estimated duration above 0 and one of the three    *)
(* statuses, whatever the commands were given.                             *)
C8_TasksWellFormed ==
    /\ \A i \in 1..Len(taskList.Tasks) : WellFormed(taskList.Tasks[i])
    /\ \A i \in 1..Len(file.data.Tasks) : WellFormed(file.data.Tasks[i])

(* C8 witness: after an add with priority 0 and duration 0, next to a task *)
(* that was completed, the list is still well formed.                      *)
C8_Witness ==
    /\ Ran("add")
    /\ argv[2] = "0" /\ argv[3] = "0"
    /\ Len(taskList.Tasks) = 2
    /\ taskList.Tasks[1].Status = "completed"
    /\ WellFormed(taskList.Tasks[2])

(* C9 as claimed: a task has a completion timestamp only if its status is  *)
(* completed.                                                              *)
C9_CompletionTimeOnlyWhenCompleted ==
    \A i \in 1..Len(taskList.Tasks) :
        taskList.Tasks[i].CompletedAt # ZeroTime
            => taskList.Tasks[i].Status = "completed"

(* C10 as claimed: the rows of the queue command's listing come in         *)
(* ascending order of position.                                            *)
C10_QueueListedByPosition ==
    Ran("queue") =>
        \A r1, r2 \in 2..Len(stdout) :
            r1 < r2 => stdout[r1].Position < stdout[r2].Position

(* C11: remove with the identifier of a task succeeds and deletes exactly  *)
(* that task: the other tasks stay, in the order they had, with every      *)
(* field but the position as it was, and the next-identifier counter is    *)
(* as it was; the file holds the result.                                   *)
C11_RemoveDeletesExactlyOne ==
    [][(CommandStep /\ argv'[1] = "remove"
            /\ ~Atoi(argv'[2]).err /\ ~MissingID(argv'[2]))
       => LET id == Atoi(argv'[2]).val
              kept == SelectSeq(taskList.Tasks, LAMBDA t : t.ID # id)
          IN  /\ exitCode' = 0
              /\ taskList'.NextID = taskList.NextID
              /\ Len(kept) = Len(taskList.Tasks) - 1
              /\ Len(taskList'.Tasks) = Len(kept)
              /\ \A i \in 1..Len(kept) :
                     WithoutPosition(taskList'.Tasks[i]) = WithoutPosition(kept[i])
              /\ file'.data = taskList']_vars

(* C11 witness: of three tasks the first was removed; tasks 2 and 3 are   *)
(* left, in that order, and the counter still says 4.                      *)
C11_Witness ==
    /\ Ran("remove")
    /\ argv[2] = "1"
    /\ exitCode = 0
    /\ saves = 1
    /\ Len(file.data.Tasks) = MaxQueued - 1
    /\ \A i \in 1..Len(file.data.Tasks) : file.data.Tasks[i].ID = i + 1
    /\ file.data.NextID = MaxQueued + 1

(* C12 as claimed: of two pending tasks with the same priority and the     *)
(* same creation time, the one earlier in the list has the smaller         *)
(* position in every persisted state.                                      *)
C12_PositionerStable ==
    file.exists =>
        \A i, j \in PendingIdx(file.data) :
            (/\ i < j
             /\ file.data.Tasks[i].Priority = file.data.Tasks[j].Priority
             /\ ~Before(file.data.Tasks[i].CreatedAt, file.data.Tasks[j].CreatedAt)
             /\ ~Before(file.data.Tasks[j].CreatedAt, file.data.Tasks[i].CreatedAt))
            => file.data.Tasks[i].Position < file.data.Tasks[j].Position

(* A process start: the step of init().                                    *)
LoadStep == pc = "exit" /\ pc' = "loaded"

(* C13: a load that finds no file leaves the empty list with               *)
(* next-identifier 1 in memory and in the file, which it writes at once;   *)
(* no command runs before the file exists; and the first add, the one that *)
(* runs when the file has been written by that load only, gives its task   *)
(* the identifier 1.                                                       *)
C13_FirstLoadPersistsEmptyList ==
    [][/\ (LoadStep /\ ~file.exists)
          => /\ taskList' = [Tasks |-> <<>>, NextID |-> 1]
             /\ file' = [exists |-> TRUE, data |-> taskList']
             /\ saves' = saves + 1
       /\ CommandStep => file.exists
       /\ (CommandStep /\ argv'[1] = "add" /\ saves = 1)
          => /\ taskList.Tasks = <<>>
             /\ stdout'[1].ID = 1
             /\ taskList'.Tasks[1].ID = 1
             /\ taskList'.NextID = 2]_vars

(* C13 witness: the first add after the first load reported task 1. *)
C13_Witness ==
    /\ Ran("add")
    /\ saves = 2
    /\ stdout[1].ID = 1
    /\ file.data.NextID = 2
    /\ Len(file.data.Tasks) = 1

(* C14: the listing of the completed tasks has one row for every completed *)
(* task and no other row; every such task has its completion time set, its *)
(* row says completed and shows no position, and the positions of the      *)
(* pending tasks are 1..N without it.                                      *)
C14_CompletedTaskListed ==
    (Ran("list") /\ argv[2] = "completed") =>
        LET done == SelectSeq(taskList.Tasks, LAMBDA t : t.Status = "completed")
            N == Cardinality(PendingIdx(taskList))
        IN  /\ Len(stdout) = Len(done)
            /\ \A r \in 1..Len(done) :
                   /\ stdout[r].ID = done[r].ID
                   /\ stdout[r].Status = "completed"
                   /\ stdout[r].posStr = "-"
                   /\ done[r].CompletedAt # ZeroTime
            /\ {taskList.Tasks[i].Position : i \in PendingIdx(taskList)} = 1..N

(* C14 witness: add, complete 1, list --status completed: the one row is   *)
(* task 1, completed, without a position.                                  *)
C14_Witness ==
    /\ Ran("list") /\ argv[2] = "completed"
    /\ saves = 3
    /\ Len(taskList.Tasks) = 1
    /\ taskList.Tasks[1].Status = "completed"
    /\ taskList.Tasks[1].CompletedAt # ZeroTime
    /\ Len(stdout) = 1
    /\ stdout[1].ID = 1 /\ stdout[1].posStr = "-"

(* The task of a list with this identifier (there is one). *)
TaskWithID(tl, id) == tl.Tasks[CHOOSE i \in 1..Len(tl.Tasks) : tl.Tasks[i].ID = id]

(* C17: in every step a task that is not pending afterwards has the        *)
(* position it had before the step, so a task keeps the position it had    *)
(* when it last was pending across every later save; and the positioner,   *)
(* run on a list that a step has put in memory, changes no field but the   *)
(* position, changes no position of a task that is not pending, and leaves *)
(* the order of the list and the next-identifier counter alone.            *)
C17_PositionerWritesPendingOnly ==
    [][/\ \A i \in 1..Len(taskList'.Tasks) :
              taskList'.Tasks[i].Status # "pending"
              => /\ taskList'.Tasks[i].ID \in IDs(taskList)
                 /\ TaskWithID(taskList, taskList'.Tasks[i].ID).Position
                        = taskList'.Tasks[i].Position
       /\ taskList' # taskList
          => \A t \in updateQueuePositions(taskList') :
                 /\ t.NextID = taskList'.NextID
                 /\ Len(t.Tasks) = Len(taskList'.Tasks)
                 /\ \A i \in 1..Len(t.Tasks) :
                        /\ WithoutPosition(t.Tasks[i]) = WithoutPosition(taskList'.Tasks[i])
                        /\ t.Tasks[i].Status # "pending"
                           => t.Tasks[i].Position = taskList'.Tasks[i].Position]_vars

(* C17 witness: task 1 was started at position 1, then task 2 was added    *)
(* and saved at position 1; task 1 still carries its stale position 1.     *)
C17_Witness ==
    /\ Ran("add")
    /\ Len(file.data.Tasks) = 2
    /\ file.data.Tasks[1].Status = "in_progress"
    /\ file.data.Tasks[1].Position = 1
    /\ file.data.Tasks[2].Status = "pending"
    /\ file.data.Tasks[2].Position = 1

(* C18: in every step a task that is not pending before is not pending     *)
(* after; the number of pending tasks grows in a step of add only; and     *)
(* start on a completed task succeeds and leaves it in progress.           *)
C18_NeverBackToPending ==
    [][/\ \A id \in IDs(taskList) \cap IDs(taskList') :
              TaskWithID(taskList, id).Status # "pending"
              => TaskWithID(taskList', id).Status # "pending"
       /\ Cardinality(PendingIdx(taskList')) > Cardinality(PendingIdx(taskList))
          => CommandStep /\ argv'[1] = "add"
       /\ (CommandStep /\ argv'[1] = "start" /\ ~Atoi(argv'[2]).err
               /\ ~MissingID(argv'[2])
               /\ TaskWithID(taskList, Atoi(argv'[2]).val).Status = "completed")
          => /\ exitCode' = 0
             /\ TaskWithID(taskList', Atoi(argv'[2]).val).Status = "in_progress"]_vars

(* C18 witness: start was accepted on a task that had been completed. *)
C18_Witness ==
    /\ Ran("start")
    /\ exitCode = 0
    /\ \E i \in 1..Len(file.data.Tasks) :
           /\ ToString(file.data.Tasks[i].ID) = argv[2]
           /\ file.data.Tasks[i].Status = "in_progress"
           /\ file.data.Tasks[i].CompletedAt # ZeroTime

(* C20: list and queue end with success and leave the list in memory and   *)
(* the file as they are, and the file unwritten; a load that finds the     *)
(* file leaves it unwritten too, so the one write an invocation of list or *)
(* queue can cause is the load's write of the empty list when it finds no  *)
(* file.                                                                   *)
C20_ReadOnlyCommands ==
    [][/\ (CommandStep /\ argv'[1] \in {"list", "queue"})
          => NothingChanged /\ exitCode' = 0
       /\ (LoadStep /\ file.exists)
          => file' = file /\ saves' = saves /\ taskList' = file.data
       /\ (LoadStep /\ ~file.exists)
          => file'.data.Tasks = <<>> /\ saves' = saves + 1]_vars

(* C20 witness: list ran on a stored list of two tasks after three writes  *)
(* and printed both; the file is as the last save left it.                 *)
C20_Witness ==
    /\ Ran("list") /\ argv[2] = ""
    /\ saves = 3
    /\ Len(stdout) = 2
    /\ Len(file.data.Tasks) = 2
    /\ file.data = taskList

(* The rendering C16 describes, from m = 1440 * days + 60 * hours + mins.  *)
Rendered(m) ==
    LET days == m \div 1440
        hours == (m - 1440 * days) \div 60
        mins == m - 1440 * days - 60 * hours
        minutesPart == ToString(mins) \o " minutes"
        hoursPart == ToString(hours) \o " hours"
        daysPart == ToString(days) \o " days"
    IN  IF m < 60 THEN minutesPart
        ELSE IF m < 1440
        THEN IF mins # 0 THEN hoursPart \o ", " \o minutesPart ELSE hoursPart
        ELSE IF hours # 0 /\ mins # 0
             THEN daysPart \o ", " \o hoursPart \o ", " \o minutesPart
        ELSE IF hours # 0 THEN daysPart \o ", " \o hoursPart
        ELSE IF mins # 0 THEN daysPart \o ", " \o minutesPart
        ELSE daysPart

(* C16: for every m in 0..MaxMinutes formatDuration(m) is the rendering of *)
(* m = 1440 * days + 60 * hours + mins: the minutes alone below 60, the    *)
(* hours and the minutes that are not 0 below 1440, the days and the hours *)
(* and minutes that are not 0 from 1440 on; so 0 gives 0 minutes, 90 gives *)
(* 1 hours, 30 minutes, 1500 gives 1 days, 1 hours and 2880 gives 2 days.  *)
C16_FormatDurationDecomposes ==
    pc = "formatted" =>
        /\ stdout = <<Rendered(argv[1])>>
        /\ argv[1] = 0 => stdout[1] = "0 minutes"
        /\ argv[1] = 45 => stdout[1] = "45 minutes"
        /\ argv[1] = 90 => stdout[1] = "1 hours, 30 minutes"
        /\ argv[1] = 120 => stdout[1] = "2 hours"
        /\ argv[1] = 1500 => stdout[1] = "1 days, 1 hours"
        /\ argv[1] = 2880 => stdout[1] = "2 days"

(* C16 witness: 1445 minutes came out as days and minutes, the hours that  *)
(* are 0 left out.                                                         *)
C16_Witness ==
    /\ pc = "formatted"
    /\ argv[1] = 1445
    /\ stdout[1] = "1 days, 5 minutes"

RECURSIVE SumDurationsAt(_, _)
SumDurationsAt(tasks, I) ==
    IF I = {} THEN 0
    ELSE LET i == CHOOSE k \in I : TRUE
         IN  tasks[i].EstimatedDuration + SumDurationsAt(tasks, I \ {i})

StrictlyLaterCreated(tasks) ==
    \A i, j \in 1..Len(tasks) :
        i < j => Before(tasks[i].CreatedAt, tasks[j].CreatedAt)

(* C19: when the creation times grow strictly from each task of the list   *)
(* to the next, the new task included, add with priority p reports the     *)
(* position 1 + the number of pending tasks that were in the list with a   *)
(* priority number of at most p, and as wait time the sum of the durations *)
(* of those tasks; the pending tasks with a priority number above p move   *)
(* back by exactly 1 and every other task keeps its position.              *)
C19_AddQueuesBehindSamePriority ==
    [][(CommandStep /\ argv'[1] = "add" /\ StrictlyLaterCreated(taskList'.Tasks))
       => LET p == taskList'.Tasks[Len(taskList'.Tasks)].Priority
              ahead == {i \in PendingIdx(taskList) : taskList.Tasks[i].Priority <= p}
          IN  /\ stdout'[1].Position = 1 + Cardinality(ahead)
              /\ taskList'.Tasks[Len(taskList'.Tasks)].Position = 1 + Cardinality(ahead)
              /\ stdout'[1].WaitTime
                     = formatDuration(SumDurationsAt(taskList.Tasks, ahead))
              /\ \A i \in 1..Len(taskList.Tasks) :
                     taskList'.Tasks[i].Position =
                         IF i \in PendingIdx(taskList) /\ taskList.Tasks[i].Priority > p
                         THEN taskList.Tasks[i].Position + 1
                         ELSE taskList.Tasks[i].Position]_vars

(* C19 witness: the third add, with priority 1, went to position 2 behind  *)
(* the older task of priority 1 and ahead of the task of priority 3, which *)
(* moved back to position 3; its wait is the duration of the task ahead.   *)
C19_Witness ==
    /\ Ran("add")
    /\ Len(taskList.Tasks) = 3
    /\ StrictlyLaterCreated(taskList.Tasks)
    /\ taskList.Tasks[1].Priority = 1 /\ taskList.Tasks[1].Position = 1
    /\ taskList.Tasks[2].Priority = 3 /\ taskList.Tasks[2].Position = 3
    /\ taskList.Tasks[3].Priority = 1 /\ taskList.Tasks[3].Position = 2
    /\ stdout[1].Position = 2
    /\ stdout[1].WaitTime = formatDuration(taskList.Tasks[1].EstimatedDuration)

(* Both processes have run add to its successful end. *)
BothAdded ==
    \A p \in Procs :
        /\ pc[p].at = "exit"
        /\ Len(argv[p]) > 0 /\ argv[p][1] = "add"
        /\ exitCode[p] = 0
        /\ Len(stdout[p]) = 1

(* C15: whenever two uncoordinated invocations of add have both reported   *)
(* success with the same identifier, the file does not hold both tasks: a  *)
(* load of it as it is gets either no task list at all (a shorter text was *)
(* written over a longer one) or the list of one of the two processes,     *)
(* with one task of that identifier and the counter at that identifier + 1.*)
(* One of the two additions is lost; the witness shows that this happens.  *)
C15_ConcurrentAddsLoseOne ==
    (BothAdded /\ stdout[1][1].ID = stdout[2][1].ID)
    => \A persisted \in {Unmarshal(file.bytes, ZeroTaskList)} :
           \/ persisted.err
           \/ /\ Cardinality({i \in 1..Len(persisted.val.Tasks) :
                                 persisted.val.Tasks[i].ID = stdout[1][1].ID}) = 1
              /\ persisted.val.NextID = stdout[1][1].ID + 1
              /\ \E p \in Procs : persisted.val = taskList[p]

(* C15 witness: both processes loaded the empty list, both added and both  *)
(* reported task 1 with success; the file is the text of the list of the   *)
(* second, a single task, and the task of the first is not in it.          *)
C15_Witness ==
    /\ BothAdded
    /\ stdout[1][1].ID = 1 /\ stdout[2][1].ID = 1
    /\ saves = 3
    /\ taskList[1].Tasks # taskList[2].Tasks
    /\ Len(taskList[2].Tasks) = 1
    /\ file.bytes = MarshalIndent(taskList[2])
    /\ Unmarshal(file.bytes, ZeroTaskList) = Decoded(taskList[2])

====
